---- MODULE Spec2Model ----
(***************************************************************************)
(* TryFit: the two retrying generation flows (single-view composite and    *)
(* AI model generation) and the page that calls them.                      *)
(*                                                                         *)
(* Text is modelled as a sequence of tokens: '' is <<>>, a data URI is a   *)
(* short sequence, and a template literal is the concatenation of its      *)
(* pieces.  An error message is a sequence of characters, so that          *)
(* message.includes('503') is a real substring search.                     *)
(*                                                                         *)
(* A flow invocation is a record (its closure: input, attempt, lastError,  *)
(* the promise it returned, who awaits that promise) and each piece of the *)
(* flow body is an operator from that record to a step: the record after   *)
(* the piece has run, the ai.generate requests it sent and the timers it   *)
(* started.                                                                *)
(***************************************************************************)
EXTENDS Integers, Sequences, FiniteSets, TLC

VARIABLES
    flow,        \* per flow: the current invocation
    upstream,    \* ai.generate requests that are outstanding
    timers,      \* setTimeout timers that are pending
    isHydrated,        \* page state, as declared by useState / useForm
    clothingImage,
    clothingAnalysis,
    modelImage,
    compositeImage,
    loadingStates,
    form,              \* modelForm values
    toast,             \* title of the toast the last step raised, if any
    consoleError,      \* what the last step wrote with console.error
    download,          \* the file the last step saved, if any
    fileChange,        \* where handleFileChange is suspended
    multiAngle         \* the current invocation of multiAngleCompositeFlow

flowVars == <<flow, upstream, timers>>

pageState == <<isHydrated, clothingImage, clothingAnalysis, modelImage,
               compositeImage, loadingStates, form, fileChange>>

pageVars == <<pageState, toast, consoleError, download>>

vars == <<flowVars, pageVars, multiAngle>>

Flows == {"composite", "model"}

---------------------------------------------------------------------------
(* Values *)

\* No file is saved.
NoDownload == [href |-> <<>>, name |-> <<>>]

\* The step calls neither toast() nor console.error, and saves no file.
Quiet == toast' = "none" /\ consoleError' = <<>> /\ download' = NoDownload

\* JavaScript null / undefined where a string is expected.
Null == <<"null">>

\* The empty string ''.
EmptyString == <<>>

\* JavaScript truthiness of a string-or-null value.
Truthy(v) == v # Null /\ v # EmptyString

\* `let lastError;`
Undefined == [undefined |-> TRUE]

\* The promise of a flow that has not been invoked.
NoPromise == [state |-> "none"]

Pending == [state |-> "pending"]

Fulfilled(v) == [state |-> "fulfilled", value |-> v]

Rejected(e) == [state |-> "rejected", error |-> e]

\* String.prototype.includes: frag occurs in msg as a contiguous run.
Includes(msg, frag) ==
    \E i \in 1..(Len(msg) - Len(frag) + 1) :
        SubSeq(msg, i, i + Len(frag) - 1) = frag

\* The fragment both flows look for in error.message.
Fragment503 == <<"5", "0", "3">>

\* Messages an upstream failure can carry: one with the 503 fragment inside
\* other text, one that has the same digits but not the fragment.
Msg503 == <<"[", "5", "0", "3", "]">>

Msg5003 == <<"[", "5", "0", "0", "3", "]">>

MsgTypeError == <<"Cannot read properties of undefined (reading 'url')">>

MsgValidation == <<"INVALID_ARGUMENT: Schema validation failed">>

\* What ai.generate can throw on attempt n: Error objects with either message,
\* and a value that is not an Error (a thrown string or plain object) whose
\* text carries the fragment.  `at` is the attempt that raised it.
ThrownBy(n) ==
    { [isError |-> TRUE,  message |-> Msg503,  at |-> n],
      [isError |-> TRUE,  message |-> Msg5003, at |-> n],
      [isError |-> FALSE, message |-> Msg503,  at |-> n] }

\* The image the provider returns for a request: named after the request, so
\* that a result can be traced to what it was generated from.
ImageOf(request) ==
    IF request.kind = "composite"
    THEN <<"composite:">> \o request.clothingImageUri \o <<"+">>
             \o request.modelImageUri \o <<"@", request.viewAngle>>
    ELSE <<"model:">> \o request.prompt

\* The `media` of a GenerateResponse: present with a url, or absent.
NoMedia == [defined |-> FALSE, url |-> Null]

MediaFor(request) == { [defined |-> TRUE, url |-> ImageOf(request)], NoMedia }

\* A flow that is not running.
IdleFlow ==
    [ pc        |-> "idle",
      input     |-> Undefined,
      attempt   |-> 0,
      lastError |-> Undefined,
      promise   |-> NoPromise,
      awaiting  |-> "nobody",
      events    |-> <<>> ]

\* A step of a flow body: the invocation afterwards, what it sent, what
\* timers it started.
Step(f, send, timer) == [f |-> f, send |-> send, timer |-> timer]

\* The record of what an invocation has done, one entry more.
Logged(f, event) == [f EXCEPT !.events = @ \o <<event>>]

---------------------------------------------------------------------------
(* Single-view composite flow *)

maxRetries == 3

BackoffMs == 3000

ViewAngles == {"front", "side", "back"}

\* z.object({... z.string() x4, viewAngle: z.enum([...])}): a string may be
\* empty, but must be a string.
SingleViewCompositeInputSchema(in) ==
    /\ in.clothingImageUri # Null
    /\ in.modelImageUri # Null
    /\ in.clothingDescription # Null
    /\ in.modelDescription # Null
    /\ in.viewAngle \in ViewAngles

\* Variant: the side and back wordings exchanged.
viewAngleInstructionsSwapped(angle) ==
    CASE angle = "front" ->
            << "Show", "the", "model", "from", "the", "front", "angle", ",",
               "facing", "forward" >>
      [] angle = "back" ->
            << "Show", "the", "model", "from", "a", "side", "profile", "angle",
               "(", "90", "degrees", ")", ",", "showing", "the", "side",
               "silhouette" >>
      [] angle = "side" ->
            << "Show", "the", "model", "from", "behind", "(", "180", "degrees",
               ")", ",", "showing", "the", "back", "of", "the", "outfit" >>

\* const instruction = viewAngleInstructions[input.viewAngle], word by word.
viewAngleInstructions(angle) ==
    CASE angle = "front" ->
            << "Show", "the", "model", "from", "the", "front", "angle", ",",
               "facing", "forward" >>
      [] angle = "side" ->
            << "Show", "the", "model", "from", "a", "side", "profile", "angle",
               "(", "90", "degrees", ")", ",", "showing", "the", "side",
               "silhouette" >>
      [] angle = "back" ->
            << "Show", "the", "model", "from", "behind", "(", "180", "degrees",
               ")", ",", "showing", "the", "back", "of", "the", "outfit" >>

\* The argument of ai.generate in the composite flow.
singleViewRequest(in) ==
    [ kind                |-> "composite",
      clothingImageUri    |-> in.clothingImageUri,
      modelImageUri       |-> in.modelImageUri,
      viewAngle           |-> in.viewAngle,
      instruction         |-> viewAngleInstructions(in.viewAngle),
      modelDescription    |-> in.modelDescription,
      clothingDescription |-> in.clothingDescription ]

\* Variant: `media?.url` without the `|| ''` fallback.
singleViewUrlNoFallback(media) == media.url

\* media?.url || ''
singleViewUrl(media) ==
    IF media.defined /\ Truthy(media.url) THEN media.url ELSE EmptyString

\* Variant: `attempt <= maxRetries` in the retry test.
singleViewShouldRetryOffByOne(error, n) ==
    /\ error.isError
    /\ Includes(error.message, Fragment503)
    /\ n <= maxRetries

\* Variant: every Error is retried, whatever its message.
singleViewShouldRetryAnyError(error, n) ==
    /\ error.isError
    /\ n < maxRetries

\* error instanceof Error && error.message.includes('503') && attempt < maxRetries
singleViewShouldRetry(error, n) ==
    /\ error.isError
    /\ Includes(error.message, Fragment503)
    /\ n < maxRetries

\* for (...; attempt <= maxRetries; ...)
singleViewLoopCondition(n) == n <= maxRetries

\* Variant: the outer catch block wraps what it caught in a new Error.
singleViewRethrowWrapped(error) ==
    [ isError |-> TRUE,
      message |-> <<"Error in single view composite generation: ">> \o error.message,
      at      |-> 0 ]

\* throw error (rethrown unchanged by the outer catch block).
singleViewRethrow(error) == error

\* The flow ends by throwing: its promise is rejected.
singleViewThrow(f, error) ==
    Step([f EXCEPT !.pc = "done", !.promise = Rejected(singleViewRethrow(error))],
         {}, {})

\* Variant: a retry asks for the front view, whatever the input's angle.
singleViewAttemptFrontOnRetry(f, n) ==
    LET in == IF n = 1 THEN f.input ELSE [f.input EXCEPT !.viewAngle = "front"]
        request == singleViewRequest(in) IN
    Step(Logged([f EXCEPT !.attempt = n, !.pc = "generate"],
                [ev |-> "attempt", n |-> n, request |-> request]),
         {[attempt |-> n, request |-> request]}, {})

\* The top of the loop body with attempt = n: call ai.generate with the
\* request built from the input and suspend on it.
singleViewAttempt(f, n) ==
    LET request == singleViewRequest(f.input) IN
    Step(Logged([f EXCEPT !.attempt = n, !.pc = "generate"],
                [ev |-> "attempt", n |-> n, request |-> request]),
         {[attempt |-> n, request |-> request]}, {})

\* singleViewCompositeFlow(input), awaited by `who`: the input is validated
\* against the schema, then the loop is entered with attempt = 1.
singleViewCompositeFlow(in, who) ==
    LET f == [IdleFlow EXCEPT !.input = in, !.awaiting = who, !.promise = Pending] IN
    IF SingleViewCompositeInputSchema(in)
    THEN singleViewAttempt(f, 1)
    ELSE Step([f EXCEPT !.pc = "done",
                        !.promise = Rejected([isError |-> TRUE,
                                              message |-> MsgValidation, at |-> 0])],
              {}, {})

\* Variant: `continue` without any wait.
singleViewBackoffSkipped(f) == singleViewAttempt(f, f.attempt + 1)

\* Variant: the timer is started but not awaited.
singleViewBackoffNotAwaited(f) ==
    LET next == singleViewAttempt(
                    Logged(f, [ev |-> "waiting", n |-> f.attempt, ms |-> BackoffMs]),
                    f.attempt + 1)
    IN  Step(next.f, next.send, {[attempt |-> f.attempt, ms |-> BackoffMs]})

\* await new Promise(resolve => setTimeout(resolve, 3000)); continue;
\* The flow starts the timer and stays suspended until it fires.
singleViewBackoff(f) ==
    Step(Logged([f EXCEPT !.pc = "backoff"],
                [ev |-> "waiting", n |-> f.attempt, ms |-> BackoffMs]),
         {}, {[attempt |-> f.attempt, ms |-> BackoffMs]})

\* The catch block, entered with `error`: record it, then wait and retry, or
\* rethrow.
singleViewCatch(f, error) ==
    LET g == [f EXCEPT !.lastError = error] IN
    IF singleViewShouldRetry(error, f.attempt)
    THEN singleViewBackoff(g)
    ELSE singleViewThrow(g, error)

\* `const {media} = await ai.generate(...)` resumed with a response:
\* return {compositeImage: media?.url || ''}.
singleViewReturn(f, media) ==
    Step([f EXCEPT !.pc = "done",
                   !.promise = Fulfilled([compositeImage |-> singleViewUrl(media)])],
         {}, {})

\* Variant: the loop counter is one variable shared by the two flows instead
\* of a local of the invocation.
singleViewContinueSharedCounter(f) ==
    LET n == IF flow["model"].pc \in {"generate", "backoff"}
             THEN flow["model"].attempt + 1
             ELSE f.attempt + 1
    IN  IF singleViewLoopCondition(n)
        THEN singleViewAttempt(f, n)
        ELSE singleViewThrow([f EXCEPT !.attempt = n], f.lastError)

\* The timer has fired: `continue`, attempt++, and the loop condition decides
\* between another pass and `throw lastError`.
singleViewContinue(f) ==
    IF singleViewLoopCondition(f.attempt + 1)
    THEN singleViewAttempt(f, f.attempt + 1)
    ELSE singleViewThrow([f EXCEPT !.attempt = f.attempt + 1], f.lastError)

---------------------------------------------------------------------------
(* AI model generation flow *)

aiModelMaxRetries == 3

aiModelBackoffMs == 3000

\* z.object({description: z.string()})
GenerateAiModelInputSchema(in) == in.description # Null

\* The argument of ai.generate in the model flow: the description is the prompt.
aiModelRequest(in) == [kind |-> "model", prompt |-> in.description]

\* Variant: the retry test without `attempt < maxRetries`.
aiModelShouldRetryUnbounded(error, n) ==
    /\ error.isError
    /\ Includes(error.message, Fragment503)

\* error instanceof Error && error.message.includes('503') && attempt < maxRetries
aiModelShouldRetry(error, n) ==
    /\ error.isError
    /\ Includes(error.message, Fragment503)
    /\ n < aiModelMaxRetries

\* for (...; attempt <= maxRetries; ...)
aiModelLoopCondition(n) == n <= aiModelMaxRetries

\* throw error / throw lastError: the promise of the flow is rejected.
aiModelThrow(f, error) ==
    Step([f EXCEPT !.pc = "done", !.promise = Rejected(error)], {}, {})

\* The top of the loop body with attempt = n.
aiModelAttempt(f, n) ==
    LET request == aiModelRequest(f.input) IN
    Step(Logged([f EXCEPT !.attempt = n, !.pc = "generate"],
                [ev |-> "attempt", n |-> n, request |-> request]),
         {[attempt |-> n, request |-> request]}, {})

\* generateAiModelFlow(input), awaited by `who`: schema validation, then the
\* loop with attempt = 1.
generateAiModelFlow(in, who) ==
    LET f == [IdleFlow EXCEPT !.input = in, !.awaiting = who, !.promise = Pending] IN
    IF GenerateAiModelInputSchema(in)
    THEN aiModelAttempt(f, 1)
    ELSE Step([f EXCEPT !.pc = "done",
                        !.promise = Rejected([isError |-> TRUE,
                                              message |-> MsgValidation, at |-> 0])],
              {}, {})

\* await new Promise(resolve => setTimeout(resolve, 3000)); continue;
aiModelBackoff(f) ==
    Step(Logged([f EXCEPT !.pc = "backoff"],
                [ev |-> "waiting", n |-> f.attempt, ms |-> aiModelBackoffMs]),
         {}, {[attempt |-> f.attempt, ms |-> aiModelBackoffMs]})

\* The catch block, entered with `error`.
aiModelCatch(f, error) ==
    LET g == [f EXCEPT !.lastError = error] IN
    IF aiModelShouldRetry(error, f.attempt)
    THEN aiModelBackoff(g)
    ELSE aiModelThrow(g, error)

\* `const {media} = await ai.generate(...)` resumed with a response:
\* return {modelImage: media!.url}.  The non-null assertion is erased at run
\* time, so an absent media makes the property read throw a TypeError inside
\* the try block, and the catch block handles it like any other error.
aiModelReturn(f, media) ==
    IF media.defined
    THEN Step([f EXCEPT !.pc = "done",
                        !.promise = Fulfilled([modelImage |-> media.url])],
              {}, {})
    ELSE aiModelCatch(f, [isError |-> TRUE, message |-> MsgTypeError,
                          at |-> f.attempt])

\* The timer has fired: `continue`, attempt++, loop condition.
aiModelContinue(f) ==
    IF aiModelLoopCondition(f.attempt + 1)
    THEN aiModelAttempt(f, f.attempt + 1)
    ELSE aiModelThrow([f EXCEPT !.attempt = f.attempt + 1], f.lastError)

---------------------------------------------------------------------------
(* Multi-angle composite flow *)

\* frontViewPrompt, sideViewPrompt, backViewPrompt in the order in which
\* multiAngleCompositeFlow passes them to Promise.all, each with the view
\* angle it asks for and the field of its output schema.
ViewPrompts ==
    << [name |-> "frontViewCompositePrompt", viewAngle |-> "front", field |-> "frontView"],
       [name |-> "sideViewCompositePrompt",  viewAngle |-> "side",  field |-> "sideView"],
       [name |-> "backViewCompositePrompt",  viewAngle |-> "back",  field |-> "backView"] >>

\* z.object({... z.string() x4})
MultiAngleCompositeInputSchema(in) ==
    /\ in.clothingImageUri # Null
    /\ in.modelImageUri # Null
    /\ in.clothingDescription # Null
    /\ in.modelDescription # Null

\* What a view prompt sends for an input.
viewPromptRequest(prompt, in) ==
    [ kind                |-> "composite",
      prompt              |-> prompt.name,
      clothingImageUri    |-> in.clothingImageUri,
      modelImageUri       |-> in.modelImageUri,
      viewAngle           |-> prompt.viewAngle,
      modelDescription    |-> in.modelDescription,
      clothingDescription |-> in.clothingDescription ]

\* The `output` of a prompt's response: an object with the one field of the
\* prompt's output schema, or null.
NoOutput == [defined |-> FALSE, field |-> "none", value |-> Null]

OutputFor(prompt, in) ==
    { [defined |-> TRUE, field |-> prompt.field,
       value |-> ImageOf(viewPromptRequest(prompt, in))],
      NoOutput }

\* result.output?.<field> || ''
viewOf(result, field) ==
    IF result.output.defined /\ result.output.field = field /\ Truthy(result.output.value)
    THEN result.output.value
    ELSE EmptyString

\* An invocation of multiAngleCompositeFlow that is not running.
IdleMultiAngle ==
    [ pc        |-> "idle",
      input     |-> Undefined,
      calls     |-> <<>>,
      completed |-> <<>>,
      promise   |-> NoPromise ]

\* Variant: the values of the joined promises in the order in which they
\* were fulfilled.
promiseAllValuesByCompletion(m) ==
    [i \in 1..Len(m.calls) |-> m.calls[m.completed[i]]]

\* The value of Promise.all([...]): the values of the promises in the order
\* of the array.
promiseAllValues(m) == [i \in 1..Len(m.calls) |-> m.calls[i]]

\* const [frontResult, sideResult, backResult] = await Promise.all([...]);
\* return {frontView: ..., sideView: ..., backView: ...}
multiAngleReturn(m) ==
    LET results == promiseAllValues(m) IN
    [ frontView |-> viewOf(results[1], "frontView"),
      sideView  |-> viewOf(results[2], "sideView"),
      backView  |-> viewOf(results[3], "backView") ]

\* multiAngleCompositeFlow(input): after validation the three prompts are
\* called one after the other without an await in between, and the flow
\* suspends on Promise.all of the three promises.
multiAngleCompositeFlow(in) ==
    LET m == [IdleMultiAngle EXCEPT !.input = in, !.promise = Pending] IN
    IF MultiAngleCompositeInputSchema(in)
    THEN [m EXCEPT !.pc = "awaiting",
                   !.calls = [i \in 1..Len(ViewPrompts) |->
                                 [ state   |-> "pending",
                                   request |-> viewPromptRequest(ViewPrompts[i], in),
                                   attempts |-> 1 ]]]
    ELSE [m EXCEPT !.pc = "done",
                   !.promise = Rejected([isError |-> TRUE, message |-> MsgValidation,
                                         at |-> 0])]

\* Promise i of the array is fulfilled: Promise.all is fulfilled once every
\* promise of the array is.
promiseAllFulfilled(m, i, output) ==
    LET n == [m EXCEPT !.calls[i] = [state |-> "fulfilled", request |-> @.request,
                                     attempts |-> @.attempts, output |-> output],
                       !.completed = @ \o <<i>>]
    IN  IF m.pc = "awaiting" /\ \A j \in 1..Len(n.calls) : n.calls[j].state = "fulfilled"
        THEN [n EXCEPT !.pc = "done", !.promise = Fulfilled(multiAngleReturn(n))]
        ELSE n

\* Variant: the rejection is delivered only when every promise of the array
\* has settled, as with Promise.allSettled followed by a rethrow.
promiseAllRejectedWhenSettled(m, i, error) ==
    LET n == [m EXCEPT !.calls[i] = [state |-> "rejected", request |-> @.request,
                                     attempts |-> @.attempts, error |-> error],
                       !.completed = @ \o <<i>>]
    IN  IF m.pc = "awaiting" /\ \A j \in 1..Len(n.calls) : n.calls[j].state # "pending"
        THEN [n EXCEPT !.pc = "done", !.promise = Rejected(error)]
        ELSE n

\* Promise i of the array is rejected: Promise.all is rejected with the first
\* rejection; nothing catches it in the flow.
promiseAllRejected(m, i, error) ==
    LET n == [m EXCEPT !.calls[i] = [state |-> "rejected", request |-> @.request,
                                     attempts |-> @.attempts, error |-> error],
                       !.completed = @ \o <<i>>]
    IN  IF m.pc = "awaiting"
        THEN [n EXCEPT !.pc = "done", !.promise = Rejected(error)]
        ELSE n

---------------------------------------------------------------------------
(* The page: TryFitPage *)

\* useState<AnalyzeClothingImageOutput | null>(null)
NoAnalysis == [null |-> TRUE]

Files == {"shirt.png", "dress.png"}

\* toBase64(file): the data URI of the file's bytes.
toBase64(file) == <<"data:image/png;base64,", file>>

\* What analyzeClothingImage({photoDataUri}) can resolve with.  photoDataUri
\* records which image the analysis was made from.
AnalysisResults(dataUri) ==
    { [ garmentType      |-> <<"T-shirt">>,
        clothingFeatures |-> << <<"crew neck">>, <<"short sleeves">> >>,
        suggestedGender  |-> g,
        photoDataUri     |-> dataUri ] : g \in {"male", "unisex"} }

defaultValues ==
    [ gender    |-> "female",
      pose      |-> "standing confidently, hands on hips",
      bodyType  |-> "athletic build",
      skinTone  |-> "light brown skin",
      viewAngle |-> "front" ]

\* The options of the gender Select.
Genders == {"female", "male"}

\* The options of the view angle Select.
AngleOptions == {"front", "side", "back"}

\* Variant: the memo without loadingStates.compositing.
isCreateTryOnDisabledNotBusy ==
    IF ~isHydrated THEN TRUE
    ELSE ~Truthy(clothingImage) \/ ~Truthy(modelImage)

isCreateTryOnDisabled ==
    IF ~isHydrated THEN TRUE
    ELSE ~Truthy(clothingImage) \/ ~Truthy(modelImage) \/ loadingStates.compositing

isDownloadDisabled ==
    IF ~isHydrated THEN TRUE ELSE ~Truthy(compositeImage)

isFileInputDisabled ==
    IF ~isHydrated THEN FALSE ELSE loadingStates.analyzing

isGenerateModelDisabled ==
    IF ~isHydrated THEN FALSE ELSE loadingStates.generatingModel

\* features.join(', ')
RECURSIVE Join(_, _)
Join(parts, sep) ==
    IF Len(parts) = 0 THEN <<>>
    ELSE IF Len(parts) = 1 THEN parts[1]
    ELSE parts[1] \o <<sep>> \o Join(Tail(parts), sep)

\* The description handleGenerateModel builds from the form values.
modelPrompt(values) ==
    << "A full-body studio portrait of a ", values.gender, " model with ",
       values.skinTone, " and an ", values.bodyType, ". The model is ",
       values.pose, ". The background is plain white." >>

\* The modelDescription handleCreateTryOn builds from the form values.
modelDescription(values) ==
    << "A ", values.gender, " model with ", values.skinTone, " and an ",
       values.bodyType, ". The model is ", values.pose, "." >>

\* The clothingDescription handleCreateTryOn builds from the analysis.
clothingDescription(analysis) ==
    analysis.garmentType \o <<" with features: ">>
        \o Join(analysis.clothingFeatures, ", ")

\* Variant: the catch block of handleGenerateModel raises no toast.
handleGenerateModelSettledSilent(p) ==
    /\ IF p.state = "fulfilled"
       THEN /\ modelImage' = p.value.modelImage
            /\ Quiet
       ELSE Quiet /\ UNCHANGED modelImage
    /\ loadingStates' = [loadingStates EXCEPT !.generatingModel = FALSE]
    /\ UNCHANGED <<isHydrated, clothingImage, clothingAnalysis, compositeImage,
                   form, fileChange>>

\* Variant: the finally block of handleGenerateModel resets every flag.
handleGenerateModelSettledResetsFlags(p) ==
    /\ IF p.state = "fulfilled"
       THEN /\ modelImage' = p.value.modelImage
            /\ Quiet
       ELSE /\ consoleError' = <<"Error generating model:">>
            /\ toast' = "Model Generation Failed"
            /\ download' = NoDownload
            /\ UNCHANGED modelImage
    /\ loadingStates' = [analyzing |-> FALSE, generatingModel |-> FALSE,
                         compositing |-> FALSE]
    /\ UNCHANGED <<isHydrated, clothingImage, clothingAnalysis, compositeImage,
                   form, fileChange>>

\* handleGenerateModel from the point where `await generateAiModel(...)`
\* settles with promise p: the image is stored, or the failure toast is
\* raised; finally the flag is cleared.
handleGenerateModelSettled(p) ==
    /\ IF p.state = "fulfilled"
       THEN /\ modelImage' = p.value.modelImage
            /\ Quiet
       ELSE /\ consoleError' = <<"Error generating model:">>
            /\ toast' = "Model Generation Failed"
            /\ download' = NoDownload
            /\ UNCHANGED modelImage
    /\ loadingStates' = [loadingStates EXCEPT !.generatingModel = FALSE]
    /\ UNCHANGED <<isHydrated, clothingImage, clothingAnalysis, compositeImage,
                   form, fileChange>>

\* Variant: the result is stored without the emptiness test.
handleCreateTryOnSettledUnchecked(p) ==
    /\ IF p.state = "fulfilled"
       THEN /\ compositeImage' = p.value.compositeImage
            /\ Quiet
       ELSE /\ consoleError' = <<"Error creating try-on:">>
            /\ toast' = "Virtual Try-On Failed"
            /\ download' = NoDownload
            /\ UNCHANGED compositeImage
    /\ loadingStates' = [loadingStates EXCEPT !.compositing = FALSE]
    /\ UNCHANGED <<isHydrated, clothingImage, clothingAnalysis, modelImage, form,
                   fileChange>>

\* Variant: the flag is cleared at the end of the try block, not in finally.
handleCreateTryOnSettledNoFinally(p) ==
    /\ IF p.state = "fulfilled" /\ Truthy(p.value.compositeImage)
       THEN /\ compositeImage' = p.value.compositeImage
            /\ loadingStates' = [loadingStates EXCEPT !.compositing = FALSE]
            /\ Quiet
       ELSE /\ consoleError' =
                   IF p.state = "fulfilled"
                   THEN <<"No composite image in result", "Error creating try-on:">>
                   ELSE <<"Error creating try-on:">>
            /\ toast' = "Virtual Try-On Failed"
            /\ download' = NoDownload
            /\ UNCHANGED <<compositeImage, loadingStates>>
    /\ UNCHANGED <<isHydrated, clothingImage, clothingAnalysis, modelImage, form,
                   fileChange>>

\* handleCreateTryOn from the point where `await generateSingleViewComposite`
\* settles with promise p: a non-empty image is stored; an empty one or a
\* rejection raises the failure toast; finally the flag is cleared.
handleCreateTryOnSettled(p) ==
    /\ IF p.state = "fulfilled" /\ Truthy(p.value.compositeImage)
       THEN /\ compositeImage' = p.value.compositeImage
            /\ Quiet
       ELSE /\ consoleError' =
                   IF p.state = "fulfilled"
                   THEN <<"No composite image in result", "Error creating try-on:">>
                   ELSE <<"Error creating try-on:">>
            /\ toast' = "Virtual Try-On Failed"
            /\ download' = NoDownload
            /\ UNCHANGED compositeImage
    /\ loadingStates' = [loadingStates EXCEPT !.compositing = FALSE]
    /\ UNCHANGED <<isHydrated, clothingImage, clothingAnalysis, modelImage, form,
                   fileChange>>

---------------------------------------------------------------------------
(* Running the flows *)

\* The requests and timers of a step, marked with the flow they belong to.
Sent(k, send) ==
    { [flow |-> k, attempt |-> r.attempt, request |-> r.request] : r \in send }

Started(k, timer) ==
    { [flow |-> k, attempt |-> t.attempt, ms |-> t.ms] : t \in timer }

\* A step of flow k takes effect.  When the step settles the promise, the
\* handler that awaits it resumes with the outcome and the invocation is
\* over; a caller other than the page keeps the settled invocation.
Resume(k, step, consumed, fired) ==
    /\ upstream' = (upstream \ consumed) \cup Sent(k, step.send)
    /\ timers' = (timers \ fired) \cup Started(k, step.timer)
    /\ UNCHANGED multiAngle
    /\ IF step.f.pc = "done" /\ step.f.awaiting = "handleCreateTryOn"
       THEN /\ flow' = [flow EXCEPT ![k] = IdleFlow]
            /\ handleCreateTryOnSettled(step.f.promise)
       ELSE IF step.f.pc = "done" /\ step.f.awaiting = "handleGenerateModel"
       THEN /\ flow' = [flow EXCEPT ![k] = IdleFlow]
            /\ handleGenerateModelSettled(step.f.promise)
       ELSE /\ flow' = [flow EXCEPT ![k] = step.f]
            /\ UNCHANGED pageState
            /\ Quiet

\* `await ai.generate(...)` of the composite flow resumes with a response.
singleViewGenerateFulfilled ==
    LET k == "composite" IN
    /\ flow[k].pc = "generate"
    /\ \E r \in upstream :
         /\ r.flow = k
         /\ r.attempt = flow[k].attempt
         /\ \E media \in MediaFor(r.request) :
              Resume(k,
                  singleViewReturn(
                      Logged(flow[k], [ev |-> "returned", n |-> r.attempt,
                                       media |-> media]),
                      media),
                  {r}, {})

\* The await throws: the catch block takes over.
singleViewGenerateRejected ==
    LET k == "composite" IN
    /\ flow[k].pc = "generate"
    /\ \E r \in upstream :
         /\ r.flow = k
         /\ r.attempt = flow[k].attempt
         /\ \E error \in ThrownBy(r.attempt) :
              Resume(k,
                  singleViewCatch(
                      Logged(flow[k], [ev |-> "threw", n |-> r.attempt,
                                       error |-> error]),
                      error),
                  {r}, {})

\* The backoff timer of the composite flow fires.
singleViewBackoffElapsed ==
    LET k == "composite" IN
    /\ flow[k].pc = "backoff"
    /\ \E t \in timers :
         /\ t.flow = k
         /\ t.attempt = flow[k].attempt
         /\ Resume(k, singleViewContinue(flow[k]), {}, {t})

\* `await ai.generate(...)` of the model flow resumes with a response.
aiModelGenerateFulfilled ==
    LET k == "model" IN
    /\ flow[k].pc = "generate"
    /\ \E r \in upstream :
         /\ r.flow = k
         /\ r.attempt = flow[k].attempt
         /\ \E media \in MediaFor(r.request) :
              Resume(k,
                  aiModelReturn(
                      Logged(flow[k], [ev |-> "returned", n |-> r.attempt,
                                       media |-> media]),
                      media),
                  {r}, {})

\* The await throws: the catch block takes over.
aiModelGenerateRejected ==
    LET k == "model" IN
    /\ flow[k].pc = "generate"
    /\ \E r \in upstream :
         /\ r.flow = k
         /\ r.attempt = flow[k].attempt
         /\ \E error \in ThrownBy(r.attempt) :
              Resume(k,
                  aiModelCatch(
                      Logged(flow[k], [ev |-> "threw", n |-> r.attempt,
                                       error |-> error]),
                      error),
                  {r}, {})

\* The backoff timer of the model flow fires.
aiModelBackoffElapsed ==
    LET k == "model" IN
    /\ flow[k].pc = "backoff"
    /\ \E t \in timers :
         /\ t.flow = k
         /\ t.attempt = flow[k].attempt
         /\ Resume(k, aiModelContinue(flow[k]), {}, {t})

---------------------------------------------------------------------------
(* The page's handlers *)

\* useEffect(() => setIsHydrated(true), [])
Hydrate ==
    /\ ~isHydrated
    /\ isHydrated' = TRUE
    /\ UNCHANGED <<clothingImage, clothingAnalysis, modelImage, compositeImage,
                   loadingStates, form, fileChange>>
    /\ Quiet
    /\ UNCHANGED <<flowVars, multiAngle>>

\* A Select of the model form changes its field.
setFormValue ==
    /\ isHydrated
    /\ \/ \E g \in Genders : form' = [form EXCEPT !.gender = g]
       \/ \E a \in AngleOptions : form' = [form EXCEPT !.viewAngle = a]
    /\ UNCHANGED <<isHydrated, clothingImage, clothingAnalysis, modelImage,
                   compositeImage, loadingStates, fileChange>>
    /\ Quiet
    /\ UNCHANGED <<flowVars, multiAngle>>

\* Variant: the previous analysis is kept until the new one arrives.
handleFileChangeKeepsAnalysis ==
    /\ isHydrated
    /\ ~isFileInputDisabled
    /\ \E file \in Files :
         /\ loadingStates' = [loadingStates EXCEPT !.analyzing = TRUE]
         /\ compositeImage' = Null
         /\ fileChange' = [pc |-> "toBase64", file |-> file]
    /\ UNCHANGED <<isHydrated, clothingImage, clothingAnalysis, modelImage, form>>
    /\ Quiet
    /\ UNCHANGED <<flowVars, multiAngle>>

\* handleFileChange up to `await toBase64(file)`.
handleFileChange ==
    /\ isHydrated
    /\ ~isFileInputDisabled
    /\ \E file \in Files :
         /\ loadingStates' = [loadingStates EXCEPT !.analyzing = TRUE]
         /\ clothingAnalysis' = NoAnalysis
         /\ compositeImage' = Null
         /\ fileChange' = [pc |-> "toBase64", file |-> file]
    /\ UNCHANGED <<isHydrated, clothingImage, modelImage, form>>
    /\ Quiet
    /\ UNCHANGED <<flowVars, multiAngle>>

\* The catch and finally blocks of handleFileChange.
handleFileChangeFailed ==
    /\ consoleError' = <<"Error analyzing image:">>
    /\ toast' = "Analysis Failed"
    /\ download' = NoDownload
    /\ clothingImage' = Null
    /\ loadingStates' = [loadingStates EXCEPT !.analyzing = FALSE]
    /\ fileChange' = [pc |-> "idle"]
    /\ UNCHANGED <<clothingAnalysis, form>>

\* toBase64 settles: on success the image is stored and the analysis is
\* requested; on failure the catch block runs.
handleFileChangeRead ==
    /\ fileChange.pc = "toBase64"
    /\ \/ /\ clothingImage' = toBase64(fileChange.file)
          /\ fileChange' = [pc |-> "analyze", dataUri |-> toBase64(fileChange.file)]
          /\ UNCHANGED <<clothingAnalysis, loadingStates, form>>
          /\ Quiet
       \/ handleFileChangeFailed
    /\ UNCHANGED <<isHydrated, modelImage, compositeImage>>
    /\ UNCHANGED <<flowVars, multiAngle>>

\* analyzeClothingImage settles: on success the analysis is stored and a
\* suggested gender of male or female is written to the form.
handleFileChangeAnalyzed ==
    /\ fileChange.pc = "analyze"
    /\ \/ \E analysisResult \in AnalysisResults(fileChange.dataUri) :
            /\ clothingAnalysis' = analysisResult
            /\ form' = IF analysisResult.suggestedGender \in {"male", "female"}
                       THEN [form EXCEPT !.gender = analysisResult.suggestedGender]
                       ELSE form
            /\ loadingStates' = [loadingStates EXCEPT !.analyzing = FALSE]
            /\ fileChange' = [pc |-> "idle"]
            /\ UNCHANGED clothingImage
            /\ Quiet
       \/ handleFileChangeFailed
    /\ UNCHANGED <<isHydrated, modelImage, compositeImage>>
    /\ UNCHANGED <<flowVars, multiAngle>>

\* Variant: the previous model image is kept while the new one is generated.
handleGenerateModelKeepsImage ==
    LET k == "model"
        step == generateAiModelFlow([description |-> modelPrompt(form)],
                                    "handleGenerateModel")
    IN  /\ isHydrated
        /\ ~isGenerateModelDisabled
        /\ compositeImage' = Null
        /\ IF step.f.pc = "done"
           THEN /\ consoleError' = <<"Error generating model:">>
                /\ toast' = "Model Generation Failed"
                /\ download' = NoDownload
                /\ UNCHANGED <<loadingStates, flowVars>>
           ELSE /\ loadingStates' = [loadingStates EXCEPT !.generatingModel = TRUE]
                /\ flow' = [flow EXCEPT ![k] = step.f]
                /\ upstream' = upstream \cup Sent(k, step.send)
                /\ UNCHANGED timers
                /\ Quiet
        /\ UNCHANGED <<isHydrated, clothingImage, clothingAnalysis, modelImage,
                       form, fileChange, multiAngle>>

\* handleGenerateModel(values), submitted from the form, up to
\* `await generateAiModel({description})`.  A call that is rejected before it
\* makes a request goes through catch and finally at once.
handleGenerateModel ==
    LET k == "model"
        step == generateAiModelFlow([description |-> modelPrompt(form)],
                                    "handleGenerateModel")
    IN  /\ isHydrated
        /\ ~isGenerateModelDisabled
        /\ modelImage' = Null
        /\ compositeImage' = Null
        /\ IF step.f.pc = "done"
           THEN /\ consoleError' = <<"Error generating model:">>
                /\ toast' = "Model Generation Failed"
                /\ download' = NoDownload
                /\ UNCHANGED <<loadingStates, flowVars>>
           ELSE /\ loadingStates' = [loadingStates EXCEPT !.generatingModel = TRUE]
                /\ flow' = [flow EXCEPT ![k] = step.f]
                /\ upstream' = upstream \cup Sent(k, step.send)
                /\ UNCHANGED timers
                /\ Quiet
        /\ UNCHANGED <<isHydrated, clothingImage, clothingAnalysis, form,
                       fileChange, multiAngle>>

\* Variant: the request is built from the form's default angle.
tryOnInputDefaultAngle ==
    [ clothingImageUri    |-> clothingImage,
      modelImageUri       |-> modelImage,
      clothingDescription |-> clothingDescription(clothingAnalysis),
      modelDescription    |-> modelDescription(form),
      viewAngle           |-> defaultValues.viewAngle ]

\* The argument of generateSingleViewComposite, built from the state and from
\* modelForm.getValues() at the time of the click.
tryOnInput ==
    [ clothingImageUri    |-> clothingImage,
      modelImageUri       |-> modelImage,
      clothingDescription |-> clothingDescription(clothingAnalysis),
      modelDescription    |-> modelDescription(form),
      viewAngle           |-> form.viewAngle ]

\* if (!clothingImage || !modelImage || !clothingAnalysis)
hasMissingImages ==
    ~Truthy(clothingImage) \/ ~Truthy(modelImage) \/ clothingAnalysis = NoAnalysis

\* Variant: the composite is cleared before the guard is tested.
missingImagesReturnAfterClear ==
    /\ toast' = "Missing Images"
    /\ download' = NoDownload
    /\ consoleError' = <<>>
    /\ compositeImage' = Null
    /\ UNCHANGED loadingStates
    /\ UNCHANGED flowVars

\* The guard's branch: the Missing Images toast, then return.
missingImagesReturn ==
    /\ toast' = "Missing Images"
    /\ download' = NoDownload
    /\ consoleError' = <<>>
    /\ UNCHANGED <<compositeImage, loadingStates>>
    /\ UNCHANGED flowVars

\* handleCreateTryOn, clicked on the button, up to
\* `await generateSingleViewComposite({...})`, or its early return with the
\* Missing Images toast.
handleCreateTryOn ==
    LET k == "composite" IN
    /\ ~isCreateTryOnDisabled
    /\ IF hasMissingImages
       THEN missingImagesReturn
       ELSE LET step == singleViewCompositeFlow(tryOnInput, "handleCreateTryOn")
            IN  /\ compositeImage' = Null
                /\ IF step.f.pc = "done"
                   THEN /\ consoleError' = <<"Error creating try-on:">>
                        /\ toast' = "Virtual Try-On Failed"
                        /\ download' = NoDownload
                        /\ UNCHANGED <<loadingStates, flowVars>>
                   ELSE /\ loadingStates' = [loadingStates EXCEPT !.compositing = TRUE]
                        /\ flow' = [flow EXCEPT ![k] = step.f]
                        /\ upstream' = upstream \cup Sent(k, step.send)
                        /\ UNCHANGED timers
                        /\ Quiet
    /\ UNCHANGED <<isHydrated, clothingImage, clothingAnalysis, modelImage, form,
                   fileChange, multiAngle>>

\* `tryfit-${modelValues.viewAngle}-view.png`, from modelForm.getValues().
downloadName == <<"tryfit-", form.viewAngle, "-view.png">>

\* downloadImage, clicked on the Download button: a link to the composite is
\* created and clicked.
downloadImage ==
    /\ ~isDownloadDisabled
    /\ Truthy(compositeImage)
    /\ download' = [href |-> compositeImage, name |-> downloadName]
    /\ toast' = "none"
    /\ consoleError' = <<>>
    /\ UNCHANGED <<pageState, flowVars, multiAngle>>

PageInit ==
    /\ isHydrated = FALSE
    /\ clothingImage = Null
    /\ clothingAnalysis = NoAnalysis
    /\ modelImage = Null
    /\ compositeImage = Null
    /\ loadingStates = [analyzing |-> FALSE, generatingModel |-> FALSE,
                        compositing |-> FALSE]
    /\ form = defaultValues
    /\ toast = "none"
    /\ consoleError = <<>>
    /\ download = NoDownload
    /\ fileChange = [pc |-> "idle"]

---------------------------------------------------------------------------
(* The flows called directly, as a test with a fake provider calls them *)

Uris == {Null, EmptyString, <<"data:image">>}

CompositeInputs ==
    [ clothingImageUri    : Uris,
      modelImageUri       : Uris,
      clothingDescription : {<<"T-shirt with features: crew neck">>},
      modelDescription    : {<<"A female model">>},
      viewAngle           : ViewAngles \cup {"top"} ]

ModelInputs == [description : {Null, EmptyString, <<"A full-body studio portrait">>}]

Settled(k) == flow[k].pc \in {"idle", "done"}

\* await generateSingleViewComposite(in), once the previous call has settled.
generateSingleViewComposite ==
    /\ Settled("composite")
    /\ \E in \in CompositeInputs :
         Resume("composite", singleViewCompositeFlow(in, "test"), {}, {})

\* await generateAiModel(in), once the previous call has settled.
generateAiModel ==
    /\ Settled("model")
    /\ \E in \in ModelInputs :
         Resume("model", generateAiModelFlow(in, "test"), {}, {})

FlowInit ==
    /\ flow = [k \in Flows |-> IdleFlow]
    /\ upstream = {}
    /\ timers = {}

FlowStep ==
    \/ singleViewGenerateFulfilled
    \/ singleViewGenerateRejected
    \/ singleViewBackoffElapsed
    \/ aiModelGenerateFulfilled
    \/ aiModelGenerateRejected
    \/ aiModelBackoffElapsed

Init == FlowInit /\ PageInit /\ multiAngle = IdleMultiAngle

Next ==
    \/ generateSingleViewComposite
    \/ generateAiModel
    \/ FlowStep

Spec == Init /\ [][Next]_vars

FairSpec ==
    /\ Init
    /\ [][Next]_vars
    /\ WF_vars(singleViewGenerateFulfilled \/ singleViewGenerateRejected)
    /\ WF_vars(singleViewBackoffElapsed)
    /\ WF_vars(aiModelGenerateFulfilled \/ aiModelGenerateRejected)
    /\ WF_vars(aiModelBackoffElapsed)

\* The page in a browser: the user's actions, the handlers' continuations
\* and the flows they call.
PageNext ==
    \/ Hydrate
    \/ setFormValue
    \/ handleFileChange
    \/ handleFileChangeRead
    \/ handleFileChangeAnalyzed
    \/ handleGenerateModel
    \/ handleCreateTryOn
    \/ downloadImage
    \/ FlowStep

PageSpec == Init /\ [][PageNext]_vars

\* The steps of the page that start, advance or end an operation: all of
\* PageNext but the edits of the form's Selects and the download, which read
\* and write neither a loading flag nor a flow.
OperationNext ==
    \/ Hydrate
    \/ handleFileChange
    \/ handleFileChangeRead
    \/ handleFileChangeAnalyzed
    \/ handleGenerateModel
    \/ handleCreateTryOn
    \/ FlowStep

\* The page's operations when every file read, analysis, upstream attempt and
\* backoff wait that is pending completes.
FairPageSpec ==
    /\ Init
    /\ [][OperationNext]_vars
    /\ WF_vars(handleFileChangeRead)
    /\ WF_vars(handleFileChangeAnalyzed)
    /\ WF_vars(singleViewGenerateFulfilled \/ singleViewGenerateRejected)
    /\ WF_vars(singleViewBackoffElapsed)
    /\ WF_vars(aiModelGenerateFulfilled \/ aiModelGenerateRejected)
    /\ WF_vars(aiModelBackoffElapsed)

---------------------------------------------------------------------------
(* The multi-angle flow called directly *)

MultiAngleInputs ==
    [ clothingImageUri    : {Null, <<"data:image/png;base64,shirt">>},
      modelImageUri       : {<<"data:image/png;base64,model">>},
      clothingDescription : {<<"T-shirt with features: crew neck">>},
      modelDescription    : {<<"A female model">>} ]

\* await generateMultiAngleComposite(in), once the previous call has settled
\* and none of its prompt calls is outstanding.
generateMultiAngleComposite ==
    /\ multiAngle.pc \in {"idle", "done"}
    /\ \A i \in 1..Len(multiAngle.calls) : multiAngle.calls[i].state # "pending"
    /\ \E in \in MultiAngleInputs : multiAngle' = multiAngleCompositeFlow(in)
    /\ UNCHANGED <<flowVars, pageVars>>

\* One of the outstanding prompt calls returns a response.
viewPromptFulfilled ==
    /\ \E i \in 1..Len(multiAngle.calls) :
         /\ multiAngle.calls[i].state = "pending"
         /\ \E output \in OutputFor(ViewPrompts[i], multiAngle.input) :
              multiAngle' = promiseAllFulfilled(multiAngle, i, output)
    /\ UNCHANGED <<flowVars, pageVars>>

\* One of the outstanding prompt calls throws.
viewPromptRejected ==
    /\ \E i \in 1..Len(multiAngle.calls) :
         /\ multiAngle.calls[i].state = "pending"
         /\ \E error \in ThrownBy(multiAngle.calls[i].attempts) :
              multiAngle' = promiseAllRejected(multiAngle, i, error)
    /\ UNCHANGED <<flowVars, pageVars>>

MultiAngleNext ==
    \/ generateMultiAngleComposite
    \/ viewPromptFulfilled
    \/ viewPromptRejected

MultiAngleSpec == Init /\ [][MultiAngleNext]_vars

---------------------------------------------------------------------------
(* What a call has done, read off its event record *)

EventsOf(k, kind) == SelectSeq(flow[k].events, LAMBDA e : e.ev = kind)

Attempts(k) == Len(EventsOf(k, "attempt"))

Waits(k) == Len(EventsOf(k, "waiting"))

EventKinds(k) == [i \in 1..Len(flow[k].events) |-> flow[k].events[i].ev]

LastEvent(k) == flow[k].events[Len(flow[k].events)]

\* The overload signature: an Error whose message text contains "503".
Overload(e) == e.isError /\ e.message = Msg503

OutstandingFor(k) == {r \in upstream : r.flow = k}

TimersFor(k) == {t \in timers : t.flow = k}

InFlight(k) == flow[k].pc \in {"generate", "backoff"}

\* Every upstream attempt made so far failed with the overload signature.
AllOverload(k) ==
    \A i \in 1..Len(flow[k].events) :
        /\ flow[k].events[i].ev # "returned"
        /\ flow[k].events[i].ev = "threw" => Overload(flow[k].events[i].error)

---------------------------------------------------------------------------
(* Claims *)

\* C1: when every upstream attempt of a generateSingleViewComposite call
\* fails with the overload signature, the call makes exactly 3 attempts with
\* exactly 2 waits of 3000 ms between them and then fails with the error of
\* the third attempt; no call ever makes a 4th attempt.
C1_RetryBound ==
    LET k == "composite"
        events == flow[k].events
    IN  /\ Attempts(k) <= 3
        /\ (flow[k].pc = "done" /\ Attempts(k) >= 1 /\ AllOverload(k)) =>
              /\ EventKinds(k) = << "attempt", "threw", "waiting",
                                    "attempt", "threw", "waiting",
                                    "attempt", "threw" >>
              /\ \A i \in {3, 6} : events[i].ms = 3000
              /\ flow[k].promise = Rejected(events[8].error)

C1_Witness ==
    LET k == "composite" IN
    /\ flow[k].pc = "done"
    /\ Attempts(k) = 3
    /\ AllOverload(k)
    /\ flow[k].promise.state = "rejected"

\* C2: an upstream failure without the overload signature, at whichever
\* attempt, is the last thing the call does: no wait and no attempt follow it
\* and the call fails with that error; on attempt 1 that is 1 attempt, 0 waits.
C2_NoRetryOnOtherError ==
    LET k == "composite"
        events == flow[k].events
    IN  \A i \in 1..Len(events) :
            (events[i].ev = "threw" /\ ~Overload(events[i].error)) =>
                /\ i = Len(events)
                /\ flow[k].pc = "done"
                /\ flow[k].promise = Rejected(events[i].error)
                /\ OutstandingFor(k) = {} /\ TimersFor(k) = {}
                /\ Attempts(k) = events[i].n
                /\ Waits(k) = events[i].n - 1
                /\ events[i].n = 1 => (Attempts(k) = 1 /\ Waits(k) = 0)

C2_Witness ==
    LET k == "composite" IN
    /\ Len(flow[k].events) = 2
    /\ LastEvent(k).ev = "threw"
    /\ ~Overload(LastEvent(k).error)
    /\ flow[k].promise.state = "rejected"

\* C3: when attempt n returns a response after n-1 overload failures, the
\* call resolves with the image of that response, has waited exactly n-1
\* times and makes no further attempt.
C3_SuccessAfterTransient ==
    LET k == "composite"
        events == flow[k].events
    IN  \A i \in 1..Len(events) :
            events[i].ev = "returned" =>
                /\ i = Len(events)
                /\ flow[k].pc = "done"
                /\ OutstandingFor(k) = {}
                /\ Attempts(k) = events[i].n
                /\ Waits(k) = events[i].n - 1
                /\ flow[k].promise.state = "fulfilled"
                /\ events[i].media.defined =>
                       flow[k].promise.value.compositeImage = events[i].media.url
                /\ \A j \in 1..(i - 1) :
                       events[j].ev = "threw" => Overload(events[j].error)

C3_Witness ==
    LET k == "composite" IN
    /\ Len(flow[k].events) > 0
    /\ LastEvent(k).ev = "returned"
    /\ LastEvent(k).n = 2
    /\ LastEvent(k).media.defined
    /\ Waits(k) = 1
    /\ flow[k].promise.state = "fulfilled"

\* C4: a call that fails after making upstream attempts fails with exactly
\* the value the last attempt threw.
C4_LastErrorPropagated ==
    LET k == "composite" IN
    (flow[k].promise.state = "rejected" /\ Attempts(k) >= 1) =>
        /\ LastEvent(k).ev = "threw"
        /\ LastEvent(k).n = Attempts(k)
        /\ LastEvent(k).error.at = Attempts(k)
        /\ flow[k].promise.error = LastEvent(k).error

C4_Witness ==
    LET k == "composite" IN
    /\ flow[k].promise.state = "rejected"
    /\ Attempts(k) = 3
    /\ flow[k].promise.error.at = 3

\* C5: a response without image payload resolves the call with
\* compositeImage = '' and is followed by no wait and no attempt.
C5_EmptyPayloadResolves ==
    LET k == "composite"
        events == flow[k].events
    IN  \A i \in 1..Len(events) :
            (events[i].ev = "returned" /\ ~events[i].media.defined) =>
                /\ i = Len(events)
                /\ flow[k].pc = "done"
                /\ flow[k].promise = Fulfilled([compositeImage |-> EmptyString])
                /\ OutstandingFor(k) = {} /\ TimersFor(k) = {}

C5_Witness ==
    LET k == "composite" IN
    /\ Len(flow[k].events) > 0
    /\ LastEvent(k).ev = "returned"
    /\ ~LastEvent(k).media.defined
    /\ flow[k].promise.state = "fulfilled"

\* C6: a call whose clothing-image or model-image reference is the empty
\* string fails at once and makes no upstream call.
C6_EmptyReferenceRejected ==
    LET k == "composite" IN
    (/\ flow[k].pc # "idle"
     /\ \/ flow[k].input.clothingImageUri = EmptyString
        \/ flow[k].input.modelImageUri = EmptyString) =>
        /\ flow[k].promise.state = "rejected"
        /\ flow[k].events = <<>>
        /\ OutstandingFor(k) = {}

\* C7: a call has at most one upstream attempt outstanding; while attempt n
\* is outstanding every earlier attempt has completed with a failure and the
\* wait that followed it has finished (no timer of the call is pending).
C7_Sequential ==
    \A k \in Flows :
        LET events == flow[k].events IN
        /\ Cardinality(OutstandingFor(k)) <= 1
        /\ \A r \in OutstandingFor(k) :
              /\ TimersFor(k) = {}
              /\ Attempts(k) = r.attempt
              /\ LastEvent(k).ev = "attempt"
              /\ \A n \in 1..(r.attempt - 1) :
                    /\ \E i \in 1..Len(events) :
                          events[i].ev = "threw" /\ events[i].n = n
                    /\ \E i \in 1..Len(events) :
                          events[i].ev = "waiting" /\ events[i].n = n

C7_Witness ==
    LET k == "composite" IN
    /\ \E r \in OutstandingFor(k) : r.attempt = 3
    /\ Waits(k) = 2
    /\ TimersFor(k) = {}

\* C8: provided every outstanding attempt and every pending wait completes,
\* a call that is in flight settles, and no call makes more than 3 attempts
\* or 2 waits.
C8_EventuallySettles ==
    /\ [](\A k \in Flows : Attempts(k) <= 3 /\ Waits(k) <= 2)
    /\ InFlight("composite") ~>
           (/\ flow["composite"].pc = "done"
            /\ flow["composite"].promise.state \in {"fulfilled", "rejected"})
    /\ InFlight("model") ~>
           (/\ flow["model"].pc = "done"
            /\ flow["model"].promise.state \in {"fulfilled", "rejected"})

C8_Witness ==
    /\ flow["model"].pc = "done"
    /\ Attempts("model") = 3
    /\ Waits("model") = 2
    /\ flow["composite"].pc = "backoff"

\* The kind of each upstream outcome of a call, in order.
OutcomeKind(e) ==
    IF e.ev = "returned"
    THEN (IF e.media.defined THEN "payload" ELSE "no payload")
    ELSE (IF Overload(e.error) THEN "overload" ELSE "other error")

OutcomeKinds(k) ==
    LET outcomes == SelectSeq(flow[k].events, LAMBDA e : e.ev \in {"returned", "threw"})
    IN  [i \in 1..Len(outcomes) |-> OutcomeKind(outcomes[i])]

\* C9: on the same sequence of upstream outcomes generateAiModel makes as
\* many attempts and waits as generateSingleViewComposite and settles the
\* same way.
C9_SameAsComposite ==
    (/\ flow["composite"].pc = "done" /\ Attempts("composite") >= 1
     /\ flow["model"].pc = "done" /\ Attempts("model") >= 1
     /\ OutcomeKinds("composite") = OutcomeKinds("model")) =>
        /\ Attempts("model") = Attempts("composite")
        /\ Waits("model") = Waits("composite")
        /\ flow["model"].promise.state = flow["composite"].promise.state

\* C10: in a page session no two generation requests are in flight at the
\* same time: not a model generation together with a composite generation,
\* and not two of the same kind.
C10_RequestsSerialized ==
    /\ ~(InFlight("composite") /\ InFlight("model"))
    /\ InFlight("composite") => isCreateTryOnDisabled
    /\ InFlight("model") => isGenerateModelDisabled

\* What the catch block of invocation k last caught, by its own record: the
\* last value an attempt threw, or in the model flow the TypeError of reading
\* the url of an absent media; Undefined while nothing was caught.
OwnLastError(k) ==
    LET caught == SelectSeq(flow[k].events,
                      LAMBDA e : \/ e.ev = "threw"
                                 \/ (k = "model" /\ e.ev = "returned" /\ ~e.media.defined))
        last == caught[Len(caught)]
    IN  IF Len(caught) = 0 THEN Undefined
        ELSE IF last.ev = "threw" THEN last.error
        ELSE [isError |-> TRUE, message |-> MsgTypeError, at |-> last.n]

\* C11: two calls that run interleaved or one after another are independent:
\* each counts its own attempts from 1 and keeps its own last error, and a
\* step of one call leaves the other call, its outstanding request and its
\* pending timer as they were.
C11_CallsIndependent ==
    /\ [](\A k \in Flows :
            /\ flow[k].attempt = Attempts(k)
            /\ \A i \in 1..Attempts(k) : EventsOf(k, "attempt")[i].n = i
            /\ flow[k].lastError = OwnLastError(k))
    /\ [][\A k \in Flows : \A j \in Flows \ {k} :
            flow'[k] # flow[k] =>
                /\ flow'[j] = flow[j]
                /\ OutstandingFor(j)' = OutstandingFor(j)
                /\ TimersFor(j)' = TimersFor(j)]_vars

C11_Witness ==
    /\ flow["composite"].pc = "backoff"
    /\ flow["composite"].attempt = 2
    /\ flow["composite"].lastError # Undefined
    /\ flow["model"].pc = "generate"
    /\ flow["model"].attempt = 1
    /\ flow["model"].lastError = Undefined

\* The wording that tells one view angle from the others.
AngleWording(angle) ==
    CASE angle = "front" -> { <<"front", "angle">>, <<"facing", "forward">> }
      [] angle = "side"  -> { <<"side", "profile">>, <<"90", "degrees">> }
      [] angle = "back"  -> { <<"from", "behind">>, <<"180", "degrees">> }

\* C12: on every attempt of a composite call the request names the view angle
\* of the input and its instruction carries the wording of that angle and the
\* wording of no other angle.
C12_AngleInstruction ==
    LET k == "composite"
        attempts == EventsOf(k, "attempt")
        requests == { attempts[i].request : i \in 1..Len(attempts) }
                        \cup { r.request : r \in OutstandingFor(k) }
    IN  \A request \in requests :
            /\ flow[k].input.viewAngle \in ViewAngles
            /\ request.viewAngle = flow[k].input.viewAngle
            /\ \A w \in AngleWording(request.viewAngle) :
                   Includes(request.instruction, w)
            /\ \A other \in ViewAngles \ {request.viewAngle} :
                   \A w \in AngleWording(other) : ~Includes(request.instruction, w)

C12_Witness ==
    LET k == "composite" IN
    /\ Attempts(k) = 3
    /\ flow[k].input.viewAngle = "back"
    /\ \E r \in OutstandingFor(k) :
           r.attempt = 3 /\ Includes(r.request.instruction, <<"180", "degrees">>)

---------------------------------------------------------------------------
(* Steps of the page in which a handler finishes *)

\* handleFileChange runs to its end in this step.
AnalysisEnds == fileChange.pc # "idle" /\ fileChange'.pc = "idle"

\* The awaited call of flow k settles in this step and its handler finishes.
CallEnds(k) == InFlight(k) /\ ~InFlight(k)'

\* C13: a step in which a page operation ends without a result (no analysis
\* stored, no model image stored, no composite stored) raises the failure
\* toast of that operation and leaves its loading flag false; the file input
\* and the Generate Model button are enabled again.
C13_FailureNotified ==
    [][ /\ (AnalysisEnds /\ clothingAnalysis' = NoAnalysis) =>
              /\ toast' = "Analysis Failed"
              /\ ~loadingStates'.analyzing
              /\ ~isFileInputDisabled'
        /\ (CallEnds("model") /\ ~Truthy(modelImage')) =>
              /\ toast' = "Model Generation Failed"
              /\ ~loadingStates'.generatingModel
              /\ ~isGenerateModelDisabled'
        /\ (CallEnds("composite") /\ ~Truthy(compositeImage')) =>
              /\ toast' = "Virtual Try-On Failed"
              /\ ~loadingStates'.compositing ]_vars

C13_Witness ==
    /\ toast = "Virtual Try-On Failed"
    /\ ~loadingStates.compositing
    /\ ~InFlight("composite")
    /\ compositeImage = Null
    /\ ~isCreateTryOnDisabled

\* C14: handleCreateTryOn never stores an empty composite: compositeImage is
\* null or a non-empty image in every state, and the step in which the handler
\* finds the result empty (it writes 'No composite image in result') leaves
\* compositeImage null, raises the Virtual Try-On Failed toast and clears the
\* compositing flag.
C14_EmptyResultIsFailure ==
    /\ [](compositeImage = Null \/ Truthy(compositeImage))
    /\ [][ (CallEnds("composite") /\ Truthy(compositeImage')) =>
               \E r \in OutstandingFor("composite") :
                   compositeImage' = ImageOf(r.request) ]_vars
    /\ [](consoleError = <<"No composite image in result", "Error creating try-on:">> =>
            /\ compositeImage = Null
            /\ toast = "Virtual Try-On Failed"
            /\ ~loadingStates.compositing
            /\ ~InFlight("composite"))

C14_Witness ==
    /\ consoleError = <<"No composite image in result", "Error creating try-on:">>
    /\ compositeImage = Null
    /\ toast = "Virtual Try-On Failed"
    /\ Truthy(clothingImage)
    /\ Truthy(modelImage)

---------------------------------------------------------------------------
(* Claims about the multi-angle flow *)

\* The image the output of prompt call i carries for field `field`, as the
\* caller should see it: the image of that call's own angle, or '' when the
\* call completed without an output value.
ExpectedView(i) ==
    IF multiAngle.calls[i].output.defined
    THEN ImageOf(viewPromptRequest(ViewPrompts[i], multiAngle.input))
    ELSE EmptyString

\* C15: generateMultiAngleComposite issues the front, side and back calls in
\* the step in which it is called, so that all three are outstanding together;
\* it has returned only when all three calls have completed, and then
\* frontView, sideView and backView hold the output of the front, side and
\* back call, in whatever order the calls completed.
C15_IssuedTogetherJoinedByAngle ==
    /\ [][ (multiAngle.pc # "awaiting" /\ multiAngle'.pc = "awaiting") =>
               /\ Len(multiAngle'.calls) = 3
               /\ \A i \in 1..3 :
                     /\ multiAngle'.calls[i].state = "pending"
                     /\ multiAngle'.calls[i].request.viewAngle
                            = <<"front", "side", "back">>[i] ]_vars
    /\ [](multiAngle.promise.state = "fulfilled" =>
            /\ \A i \in 1..3 : multiAngle.calls[i].state = "fulfilled"
            /\ multiAngle.promise.value =
                   [ frontView |-> ExpectedView(1),
                     sideView  |-> ExpectedView(2),
                     backView  |-> ExpectedView(3) ])
    /\ [](multiAngle.pc = "awaiting" => multiAngle.promise = Pending)

C15_Witness ==
    /\ multiAngle.promise.state = "fulfilled"
    /\ multiAngle.completed = <<3, 1, 2>>
    /\ \A i \in 1..3 : multiAngle.calls[i].output.defined
    /\ multiAngle.promise.value.backView =
           ImageOf(viewPromptRequest(ViewPrompts[3], multiAngle.input))

\* C16: each of the three angle calls of generateMultiAngleComposite follows
\* the failure policy of the single-angle call: a call that failed with the
\* overload signature is retried until it has made 3 attempts before the
\* failure is propagated, and any other error is propagated at once.
C16_MultiAngleRetries ==
    \A i \in 1..Len(multiAngle.calls) :
        multiAngle.calls[i].state = "rejected" =>
            IF Overload(multiAngle.calls[i].error)
            THEN multiAngle.calls[i].attempts = maxRetries
            ELSE multiAngle.promise.state = "rejected"

---------------------------------------------------------------------------
(* Claims about the view angle on the page *)

\* The composite requests a step sends to the provider.
CompositeRequestsSent == {r \in upstream' \ upstream : r.flow = "composite"}

\* C17: the form's view angle is always one of front, side, back, and the
\* step in which Create Virtual Try-On starts a composite call sends a request
\* that carries the view angle the form holds when the button is clicked.
C17_RequestCarriesSelectedAngle ==
    /\ [](form.viewAngle \in ViewAngles)
    /\ [][ (~InFlight("composite") /\ InFlight("composite")') =>
               /\ CompositeRequestsSent # {}
               /\ \A r \in CompositeRequestsSent :
                     /\ r.attempt = 1
                     /\ r.request.viewAngle = form.viewAngle
                     /\ r.request.viewAngle \in ViewAngles
               /\ flow'["composite"].input.viewAngle = form.viewAngle ]_vars

C17_Witness ==
    /\ form.viewAngle = "side"
    /\ flow["composite"].awaiting = "handleCreateTryOn"
    /\ \E r \in OutstandingFor("composite") :
          r.attempt = 1 /\ r.request.viewAngle = "side"

\* The view angle of the request a composite image was generated from.
AngleOfImage(image) == image[Len(image)]

\* C18: a file saved by downloadImage is the composite on the page and its
\* name is tryfit-<angle>-view.png with the view angle that composite was
\* generated with.
C18_DownloadNamedAfterImageAngle ==
    download # NoDownload =>
        /\ download.href = compositeImage
        /\ download.name = <<"tryfit-", AngleOfImage(download.href), "-view.png">>

---------------------------------------------------------------------------
(* Claims about the requests of one call *)

\* The fields of a composite request that come from the caller's input.
RequestCarries(request, in) ==
    /\ request.clothingImageUri = in.clothingImageUri
    /\ request.modelImageUri = in.modelImageUri
    /\ request.clothingDescription = in.clothingDescription
    /\ request.modelDescription = in.modelDescription
    /\ request.viewAngle = in.viewAngle

\* C19: the i-th attempt of a composite call has attempt number i and sends
\* the request of attempt 1, with the clothing image, model image,
\* descriptions and view angle of the call's input; a request that is
\* outstanding is the request of the attempt whose number it bears.
C19_RetrySendsSameRequest ==
    LET a == EventsOf("composite", "attempt") IN
    /\ \A i \in 1..Len(a) :
          /\ a[i].n = i
          /\ a[i].request = a[1].request
          /\ RequestCarries(a[i].request, flow["composite"].input)
    /\ \A r \in OutstandingFor("composite") :
          /\ r.attempt \in 1..Len(a)
          /\ r.request = a[1].request

C19_Witness ==
    /\ Attempts("composite") = 3
    /\ flow["composite"].input.viewAngle = "back"
    /\ \E r \in OutstandingFor("composite") :
          r.attempt = 3 /\ r.request.viewAngle = "back"

\* C20: in both flows, a failed attempt is followed by a wait (and so by a
\* retry) exactly when the text of the failure contains "503" and the attempt
\* number is below 3, whatever kind of value the failure is.
C20_RetryIffFragmentAndBudget ==
    \A k \in Flows :
        LET events == flow[k].events IN
        \A i \in 1..Len(events) :
            events[i].ev = "threw" =>
                ( (i < Len(events) /\ events[i + 1].ev = "waiting")
                  <=> ( /\ Includes(events[i].error.message, Fragment503)
                        /\ events[i].n < 3 ) )

---------------------------------------------------------------------------
(* Claims about the page's guards, flags and stored results *)

\* C21: a step that starts a composite call is taken with clothingImage,
\* modelImage and clothingAnalysis all present; the step that raises Missing
\* Images is taken with one of them absent, sends nothing and changes no
\* state of the page or of the flows.
C21_MissingImagesGuard ==
    /\ [][ (~InFlight("composite") /\ InFlight("composite")') =>
               /\ Truthy(clothingImage)
               /\ Truthy(modelImage)
               /\ clothingAnalysis # NoAnalysis ]_vars
    /\ [][ toast' = "Missing Images" =>
               /\ hasMissingImages
               /\ upstream' = upstream
               /\ UNCHANGED <<pageState, flowVars>> ]_vars

C21_Witness ==
    /\ toast = "Missing Images"
    /\ Truthy(compositeImage)
    /\ clothingAnalysis = NoAnalysis
    /\ ~loadingStates.compositing

\* The trigger of each kind of call is disabled.
TriggerDisabled(k) ==
    IF k = "composite" THEN isCreateTryOnDisabled ELSE isGenerateModelDisabled

\* The loading flag of each kind of call.
FlagOf(k) ==
    IF k = "composite" THEN loadingStates.compositing
    ELSE loadingStates.generatingModel

AnalysisInFlight == fileChange.pc # "idle"

\* C22: a trigger is disabled while its own flag is true; a call in flight,
\* between retries included, has its flag true, and has at most one request
\* or one backoff timer pending; a call is started only when no call of its
\* kind is in flight.
C22_BusyGating ==
    /\ [](\A k \in Flows :
            /\ FlagOf(k) => TriggerDisabled(k)
            /\ InFlight(k) => FlagOf(k)
            /\ Cardinality(OutstandingFor(k)) + Cardinality(TimersFor(k)) <= 1)
    /\ [](/\ loadingStates.analyzing => isFileInputDisabled
          /\ AnalysisInFlight => loadingStates.analyzing)
    /\ [][ /\ \A k \in Flows :
                (\E r \in upstream' \ upstream : r.flow = k /\ r.attempt = 1)
                    => ~InFlight(k)
           /\ (AnalysisInFlight' /\ fileChange'.pc = "toBase64"
                   /\ fileChange' # fileChange) => ~AnalysisInFlight ]_vars

C22_Witness ==
    /\ flow["composite"].pc = "backoff"
    /\ flow["composite"].attempt = 2
    /\ TimersFor("composite") # {}
    /\ isCreateTryOnDisabled
    /\ Truthy(clothingImage) /\ Truthy(modelImage)

C24_FlagsEventuallyCleared ==
    /\ loadingStates.analyzing ~> ~loadingStates.analyzing
    /\ loadingStates.generatingModel ~> ~loadingStates.generatingModel
    /\ loadingStates.compositing ~> ~loadingStates.compositing

C24_Witness ==
    /\ loadingStates.analyzing
    /\ loadingStates.generatingModel
    /\ loadingStates.compositing
    /\ flow["composite"].pc = "backoff"
    /\ flow["composite"].attempt = 2
    /\ flow["model"].pc = "generate"
    /\ flow["model"].attempt = 3

\* The composite images that can be generated from a clothing image and a
\* model image.
CompositesOf(clothing, model) ==
    { ImageOf(singleViewRequest(
          [ clothingImageUri    |-> clothing,
            modelImageUri       |-> model,
            clothingDescription |-> <<>>,
            modelDescription    |-> <<>>,
            viewAngle           |-> a ])) : a \in ViewAngles }

\* C25: a composite on the page was generated from the clothing image and
\* the model image that are on the page, which are both present.
C25_NoStaleComposite ==
    Truthy(compositeImage) =>
        /\ Truthy(clothingImage)
        /\ Truthy(modelImage)
        /\ compositeImage \in CompositesOf(clothingImage, modelImage)

\* C26: an analysis on the page was made from the clothing image on the
\* page; the clothing image changes only while no analysis is on the page,
\* the step that takes a new file having cleared it; and the step that
\* reports a failed analysis leaves neither image nor analysis.
C26_AnalysisOfCurrentImage ==
    /\ [](clothingAnalysis # NoAnalysis =>
            /\ Truthy(clothingImage)
            /\ clothingAnalysis.photoDataUri = clothingImage)
    /\ [][ /\ clothingImage' # clothingImage => clothingAnalysis = NoAnalysis
           /\ (fileChange.pc = "idle" /\ fileChange'.pc = "toBase64") =>
                  clothingAnalysis' = NoAnalysis /\ clothingImage' = clothingImage
           /\ toast' = "Analysis Failed" =>
                  clothingImage' = Null /\ clothingAnalysis' = NoAnalysis ]_vars

C26_Witness ==
    /\ clothingAnalysis # NoAnalysis
    /\ clothingImage = toBase64("dress.png")
    /\ Truthy(compositeImage)
    /\ compositeImage[3] = "shirt.png"

\* C27: the step that starts a model generation sets modelImage and
\* compositeImage to null; no model image is on the page while the call is in
\* flight; the step that reports its failure leaves modelImage null, the
\* composite as it is and Create Virtual Try-On disabled; a model image
\* appears only in the step in which a model generation succeeds; and the
\* starting and the failing step leave clothingImage and clothingAnalysis
\* unchanged.
C27_FailedModelLeavesNoModel ==
    /\ [](InFlight("model") => modelImage = Null)
    /\ [][ /\ (~InFlight("model") /\ InFlight("model")') =>
                  /\ modelImage' = Null
                  /\ compositeImage' = Null
                  /\ UNCHANGED <<clothingImage, clothingAnalysis>>
           /\ toast' = "Model Generation Failed" =>
                  /\ modelImage' = Null
                  /\ compositeImage' = compositeImage
                  /\ isCreateTryOnDisabled'
                  /\ UNCHANGED <<clothingImage, clothingAnalysis>>
           /\ (modelImage' # modelImage /\ Truthy(modelImage')) =>
                  /\ CallEnds("model")
                  /\ toast' = "none" ]_vars

C27_Witness ==
    /\ toast = "Model Generation Failed"
    /\ modelImage = Null
    /\ isCreateTryOnDisabled
    /\ Truthy(clothingImage)
    /\ clothingAnalysis # NoAnalysis
    /\ Truthy(compositeImage)

---------------------------------------------------------------------------
(* Claims about failures of the multi-angle flow *)

RejectedCalls ==
    {i \in 1..Len(multiAngle.calls) : multiAngle.calls[i].state = "rejected"}

\* The call that was rejected first.
FirstRejected ==
    LET c == multiAngle.completed
        p == CHOOSE p \in 1..Len(c) :
                 /\ c[p] \in RejectedCalls
                 /\ \A q \in 1..(p - 1) : c[q] \notin RejectedCalls
    IN  c[p]

\* C28: as soon as one of the three calls has failed the multi-angle call has
\* failed with that call's error, whatever the other two calls do, and has
\* no result; a call that succeeded has no failed call, and a call without
\* an output value has '' in its field.
C28_AllOrNothing ==
    /\ RejectedCalls # {} =>
          /\ multiAngle.pc = "done"
          /\ multiAngle.promise = Rejected(multiAngle.calls[FirstRejected].error)
    /\ multiAngle.promise.state = "fulfilled" =>
          /\ RejectedCalls = {}
          /\ ~multiAngle.calls[1].output.defined =>
                 multiAngle.promise.value.frontView = EmptyString
          /\ ~multiAngle.calls[2].output.defined =>
                 multiAngle.promise.value.sideView = EmptyString
          /\ ~multiAngle.calls[3].output.defined =>
                 multiAngle.promise.value.backView = EmptyString

C28_Witness ==
    /\ multiAngle.completed = <<1, 2, 3>>
    /\ multiAngle.calls[1].state = "fulfilled"
    /\ multiAngle.calls[2].state = "rejected"
    /\ multiAngle.calls[3].state = "fulfilled"
    /\ multiAngle.calls[3].output.defined
    /\ multiAngle.promise = Rejected(multiAngle.calls[2].error)

\* A multi-angle call that succeeded although one call had no output value.
C28_EmptyOutputReached ==
    /\ multiAngle.promise.state = "fulfilled"
    /\ ~multiAngle.calls[2].output.defined
    /\ multiAngle.calls[1].output.defined
    /\ multiAngle.promise.value.sideView = EmptyString
    /\ Truthy(multiAngle.promise.value.frontView)

---------------------------------------------------------------------------
(* Claims about the descriptions of a composite request *)

\* The form values a model can have been generated with.
ModelValues == {[defaultValues EXCEPT !.gender = g] : g \in Genders}

\* C29: the model description of every composite request is built from the
\* form values from which the model image of the same request was generated.
C29_DescriptionMatchesModelImage ==
    \A r \in OutstandingFor("composite") :
        \E values \in ModelValues :
            /\ r.request.modelImageUri =
                   ImageOf(aiModelRequest([description |-> modelPrompt(values)]))
            /\ r.request.modelDescription = modelDescription(values)

====
